---- MODULE Spec2Model ----
(***************************************************************************)
(* Model of auto_match_move_to_video.py: one run of main(), from the two   *)
(* cv2.imread calls to writer.release(), as a state machine.  Each action  *)
(* is one block of main(); the inputs of the run (the two decoded images,  *)
(* --fps, --seconds) are drawn in Init.                                    *)
(*                                                                         *)
(* Numbers.  The script computes in IEEE-754 doubles and rounds with       *)
(* Python's round().  A quotient p/q stands for the real number the double *)
(* expression approximates.  Away from an exact half the double rounds to  *)
(* the nearest integer; at an exact half the double may lie on either side *)
(* (0.1*15 is 1.5 but 4.1*15 is 61.49999999999999), so round() may return  *)
(* either neighbour: PyRound is the set of results the build can produce.  *)
(*                                                                         *)
(* Pixels.  A frame is the list of drawing operations applied to the numpy *)
(* buffer, in program order; PixelAt resolves a pixel to the colour the    *)
(* last operation covering it wrote.  Blended content is the symbolic      *)
(* colour "inside".                                                        *)
(***************************************************************************)
EXTENDS Integers, Sequences, FiniteSets, TLC

VARIABLES
    pc,            \* position in main()
    img_a, img_b,  \* results of cv2.imread: NoImage or [w, h]
    fps, seconds,  \* args.fps (int), args.seconds ([num, den])
    w_out, h_out,  \* video size
    new_w_b,       \* width of img_b_scaled
    w_43,          \* target 4:3 width
    total_frames,
    writer,        \* "none", "open", "released"
    releases,      \* number of writer.release() calls
    frame_idx,
    t,             \* [num, den]: t = num/den
    rect_w, x0, x1, y0, y1,
    wA, wB,        \* addWeighted weights, numerators over t.den
    frame,         \* [w, h, idx, ops]
    calls,         \* writer.write calls so far
    write_failed,  \* the encoder dropped a frame of an earlier write
    status,        \* process exit status, Running while main() runs
    stdout,        \* messages printed
    prog,          \* the script (or function) this run executes
    \* the PowerPoint scripts
    cv_status,     \* PowerPoint's CreateVideoStatus of the export task
    seen,          \* the status the polling loop read last, NotPolled before
    polls,         \* reads of CreateVideoStatus so far
    pres,          \* which of pres_orig, pres_resized, pres_out are not None
    close_attempts,\* Close() calls per presentation
    quits,         \* pp.Quit() calls
    slide_count,   \* Slides.Count per presentation
    pending,       \* what leaves the try block: "none", an exit code, "exc"
    \* morph_pptx
    orig_deck,     \* the extracted original deck: [ns, slds, rels, files]
    res_deck,      \* the extracted resized deck
    out_slds,      \* out_sldIdLst: the p:sldId entries of the output deck
    out_rels,      \* children of out_rels_root, in document order
    out_files,     \* the files of out/ppt/slides
    new_rel_ids,   \* set of id strings
    pair_count,
    idx,
    copied         \* destinations of the shutil.copyfile calls so far

(* variables of auto_match_move_to_video.main alone *)
amVars == <<img_a, img_b, fps, seconds, w_out, h_out, new_w_b, w_43,
            total_frames, writer, releases, frame_idx, t, rect_w, x0, x1, y0, y1,
            wA, wB, frame, calls, write_failed>>

(* variables of the PowerPoint scripts alone *)
pptVars == <<cv_status, seen, polls, pres, close_attempts, quits, slide_count,
             pending>>

(* what a step of auto_match_move_to_video.main never touches *)
mpVars == <<orig_deck, res_deck, out_slds, out_rels, out_files, new_rel_ids,
           pair_count, idx, copied>>
amOthers == <<prog, pptVars, mpVars>>
pptOthers == <<prog, amVars, mpVars>>

vars == <<pc, status, stdout, prog, amVars, pptVars, mpVars>>

----------------------------------------------------------------------------
(* Bounds of the inputs *)
MaxW == 8
MaxH == 4
MaxWB == 1
MaxHB == 2
MaxFps == 2
MaxSecQ == 5

(* Program constants *)
DefaultFps == 30
DefaultSeconds == 2
MinFrames == 2
BorderThickness == 2

NoImage == [w |-> 0, h |-> 0]
NoFrame == [w |-> 0, h |-> 0, idx |-> -1, ops |-> <<>>]
Running == -1
Rat(n, d) == [num |-> n, den |-> d]

Images(mw, mh) == {[w |-> a, h |-> b] : a \in 1..mw, b \in 1..mh}

(* --fps/--seconds pairs: a grid of small rates and quarter seconds, the   *)
(* defaults (30, 2.0), and (1, 0.1).                                       *)
Params ==
    {<<f, Rat(q, 4)>> : f \in (-1)..MaxFps, q \in 0..MaxSecQ}
        \cup {<<DefaultFps, Rat(DefaultSeconds, 1)>>, <<1, Rat(1, 10)>>}

----------------------------------------------------------------------------
(* Pure computations *)

Min(a, b) == IF a <= b THEN a ELSE b
Max(a, b) == IF a >= b THEN a ELSE b

(* int(round(p/q)), q > 0: the nearest integer; either neighbour at a half *)
PyRound(p, q) ==
    LET f == p \div q
        r == p - f * q
    IN  IF 2 * r < q THEN {f}
        ELSE IF 2 * r > q THEN {f + 1}
        ELSE {f, f + 1}

(* line 72-73: new_w_b = int(round(w_b * (h_out / float(h_b)))) *)
ScaledWidthB(wb, hb, ho) == PyRound(wb * ho, hb)

(* no clamp to the canvas width *)
TargetWidthNoClamp(wo, ho) == PyRound(ho * 4, 3)

(* line 81-83: w_43 = min(int(round(h_out * 4.0 / 3.0)), w_out) *)
TargetWidth(wo, ho) == {Min(r, wo) : r \in PyRound(ho * 4, 3)}

(* no floor of two frames *)
TotalFramesNoFloor(f, s) == PyRound(f * s.num, s.den)

(* line 92: total_frames = max(2, int(round(fps * seconds))) *)
TotalFrames(f, s) == {Max(MinFrames, r) : r \in PyRound(f * s.num, s.den)}

(* t = i/N and t = (i+1)/N instead of i/(N-1) *)
TimeOfOverN(i, n) == Rat(i, n)
TimeOfOffByOne(i, n) == Rat(i + 1, n)

(* line 112-115 *)
TimeOf(i, n) == IF n = 1 THEN Rat(1, 1) ELSE Rat(i, n - 1)

(* the two interpolation weights swapped *)
RectWidthSwapped(tt, wo, w43) ==
    PyRound(tt.num * wo + (tt.den - tt.num) * w43, tt.den)

(* line 122: rect_w = int(round((1.0 - t) * w_out + t * w_43)) *)
RectWidth(tt, wo, w43) == PyRound((tt.den - tt.num) * wo + tt.num * w43, tt.den)

(* the whole width subtracted instead of half of it *)
RectX0NotHalved(wo, rw) == Max(0, (wo \div 2) - rw)

(* line 126-127 and 133: cx = w_out // 2; x0 = max(0, cx - rect_w // 2) *)
RectX0(wo, rw) == Max(0, (wo \div 2) - (rw \div 2))

(* x1 measured from the centre instead of from x0 *)
RectX1FromCentre(wo, rw) == Min(wo, (wo \div 2) + rw)

(* line 128 and 134: x1 = min(w_out, x0 + rect_w), x0 before its clamp *)
RectX1(wo, rw) == Min(wo, ((wo \div 2) - (rw \div 2)) + rw)

(* A keeps its full weight *)
WeightAFull(tt) == tt.den

(* line 148: cv2.addWeighted(a_scaled, 1.0 - t, b_scaled, t, 0.0) *)
WeightA(tt) == tt.den - tt.num

WeightB(tt) == tt.num

----------------------------------------------------------------------------
(* Drawing operations on the frame buffer *)

Abs(a) == IF a >= 0 THEN a ELSE -a

DrawOp(k, ax0, ay0, ax1, ay1, th, c) ==
    [kind |-> k, x0 |-> ax0, y0 |-> ay0, x1 |-> ax1, y1 |-> ay1,
     thick |-> th, color |-> c]

(* line 137: np.zeros((h_out, w_out, 3)) *)
Zeros(wo, ho) == DrawOp("fill", 0, 0, wo, ho, 0, "black")

(* line 151: frame[y0:y1, x0:x1] = inside *)
SliceAssign(ax0, ay0, ax1, ay1) == DrawOp("fill", ax0, ay0, ax1, ay1, 0, "inside")

(* line 154: cv2.rectangle(frame, (x0, y0), (x1, y1), (255,255,255), thickness=2) *)
Rectangle(ax0, ay0, ax1, ay1) ==
    DrawOp("stroke", ax0, ay0, ax1, ay1, BorderThickness, "white")

(* cv2.rectangle with thickness > 1 strokes its four edges as thick lines: *)
(* each edge fills the band of half-width thickness/2 on both sides of the *)
(* segment between the two corners (both corners included), and each       *)
(* corner gets a filled circle of that radius (a plus shape for radius 1). *)
InStroke(op, x, y) ==
    LET hw == op.thick \div 2
    IN  \/ Abs(x - op.x0) <= hw /\ op.y0 <= y /\ y <= op.y1
        \/ Abs(x - op.x1) <= hw /\ op.y0 <= y /\ y <= op.y1
        \/ Abs(y - op.y0) <= hw /\ op.x0 <= x /\ x <= op.x1
        \/ Abs(y - op.y1) <= hw /\ op.x0 <= x /\ x <= op.x1
        \/ \E cx \in {op.x0, op.x1}, cy \in {op.y0, op.y1} :
               Abs(x - cx) + Abs(y - cy) <= hw

Covers(op, x, y) ==
    IF op.kind = "fill"
    THEN op.x0 <= x /\ x < op.x1 /\ op.y0 <= y /\ y < op.y1
    ELSE InStroke(op, x, y)

RECURSIVE PixelFrom(_, _, _, _)
PixelFrom(ops, k, x, y) ==
    IF k = 0 THEN "uninitialized"
    ELSE IF Covers(ops[k], x, y) THEN ops[k].color
    ELSE PixelFrom(ops, k - 1, x, y)

(* colour of pixel (x, y), 0 <= x < fr.w, 0 <= y < fr.h *)
PixelAt(fr, x, y) == PixelFrom(fr.ops, Len(fr.ops), x, y)

(* the content assigned over the whole width; the border under the content *)
ComposeOpsFullWidth(wo, ho, ax0, ay0, ax1, ay1) ==
    <<Zeros(wo, ho), SliceAssign(0, ay0, wo, ay1), Rectangle(ax0, ay0, ax1, ay1)>>

ComposeOpsBorderFirst(wo, ho, ax0, ay0, ax1, ay1) ==
    <<Zeros(wo, ho), Rectangle(ax0, ay0, ax1, ay1), SliceAssign(ax0, ay0, ax1, ay1)>>

(* lines 137-154, in program order *)
ComposeOps(wo, ho, ax0, ay0, ax1, ay1) ==
    <<Zeros(wo, ho), SliceAssign(ax0, ay0, ax1, ay1), Rectangle(ax0, ay0, ax1, ay1)>>

----------------------------------------------------------------------------
(* the PowerPoint scripts are not running *)
NotPolled == -1
NoPres == [orig |-> FALSE, resized |-> FALSE, out |-> FALSE]
NoCount == [orig |-> 0, resized |-> 0, out |-> 0]

PptIdle ==
    /\ cv_status = 0
    /\ seen = NotPolled
    /\ polls = 0
    /\ pres = NoPres
    /\ close_attempts = NoCount
    /\ quits = 0
    /\ slide_count = NoCount
    /\ pending = "none"

(* morph_pptx is not running *)
NoDeck == [ns |-> "none", slds |-> <<>>, rels |-> <<>>, files |-> {}]

MpIdle ==
    /\ orig_deck = NoDeck /\ res_deck = NoDeck
    /\ out_slds = <<>> /\ out_rels = <<>> /\ out_files = {}
    /\ new_rel_ids = {}
    /\ pair_count = 0 /\ idx = 0
    /\ copied = <<>>

(* main() before line 61: nothing computed, nothing opened *)
Start ==
    /\ pc = "start"
    /\ prog = "auto_match"
    /\ PptIdle
    /\ MpIdle
    /\ w_out = 0 /\ h_out = 0 /\ new_w_b = 0 /\ w_43 = 0 /\ total_frames = 0
    /\ writer = "none" /\ releases = 0
    /\ frame_idx = 0 /\ t = Rat(0, 1)
    /\ rect_w = 0 /\ x0 = 0 /\ x1 = 0 /\ y0 = 0 /\ y1 = 0
    /\ wA = 0 /\ wB = 0
    /\ frame = NoFrame
    /\ calls = <<>>
    /\ write_failed = FALSE
    /\ status = Running
    /\ stdout = <<>>

Init ==
    /\ img_a \in {NoImage} \cup Images(MaxW, MaxH)
    /\ img_b \in {NoImage} \cup Images(MaxWB, MaxHB)
    /\ \E p \in Params : fps = p[1] /\ seconds = p[2]
    /\ Start

(* the status dropped: every exit reports success *)
ExitStatusZero(code, msg) ==
    /\ pc' = "exit"
    /\ status' = 0
    /\ stdout' = Append(stdout, msg)

Exit(code, msg) ==
    /\ pc' = "exit"
    /\ status' = code
    /\ stdout' = Append(stdout, msg)

(* An exception nobody catches: main() has no try/except/finally, the      *)
(* interpreter prints the traceback and exits with status 1.               *)
Uncaught ==
    /\ pc' = "raised"
    /\ status' = 1
    /\ UNCHANGED stdout

(* line 61: img_a = load_image(args.a, "A (16:9)") *)
LoadA ==
    /\ pc = "start"
    /\ UNCHANGED amOthers
    /\ IF img_a = NoImage
       THEN Exit(1, "ERROR read A")
       ELSE pc' = "loadB" /\ UNCHANGED <<status, stdout>>
    /\ UNCHANGED <<img_a, img_b, fps, seconds, w_out, h_out, new_w_b, w_43,
                   total_frames, writer, releases, frame_idx, t, rect_w,
                   x0, x1, y0, y1, wA, wB, frame, calls, write_failed>>

(* line 62: img_b = load_image(args.b, "B (4:3)") *)
LoadB ==
    /\ pc = "loadB"
    /\ UNCHANGED amOthers
    /\ IF img_b = NoImage
       THEN Exit(1, "ERROR read B")
       ELSE pc' = "setup" /\ UNCHANGED <<status, stdout>>
    /\ UNCHANGED <<img_a, img_b, fps, seconds, w_out, h_out, new_w_b, w_43,
                   total_frames, writer, releases, frame_idx, t, rect_w,
                   x0, x1, y0, y1, wA, wB, frame, calls, write_failed>>

(* lines 64-92: sizes, scaled B, target width, frame count.  cv2.resize    *)
(* raises cv2.error for a destination width of 0.                          *)
Setup ==
    /\ pc = "setup"
    /\ UNCHANGED amOthers
    /\ w_out' = img_a.w
    /\ h_out' = img_a.h
    /\ \E nb \in ScaledWidthB(img_b.w, img_b.h, img_a.h) :
         /\ new_w_b' = nb
         /\ IF nb <= 0
            THEN /\ Uncaught
                 /\ UNCHANGED <<w_43, total_frames>>
            ELSE /\ w_43' \in TargetWidth(img_a.w, img_a.h)
                 /\ total_frames' \in TotalFrames(fps, seconds)
                 /\ pc' = "open"
                 /\ UNCHANGED <<status, stdout>>
    /\ UNCHANGED <<img_a, img_b, fps, seconds, writer, releases, frame_idx, t,
                   rect_w, x0, x1, y0, y1, wA, wB, frame, calls, write_failed>>

(* lines 94-109: open the writer; exit 2 when it did not open.  Whether it *)
(* opens is the encoder's answer.  The resize of A at 107-109 never runs:  *)
(* h_out is h_a.                                                           *)
OpenWriter ==
    /\ pc = "open"
    /\ UNCHANGED amOthers
    /\ \E opened \in BOOLEAN :
         IF opened
         THEN /\ writer' = "open"
              /\ pc' = "loop"
              /\ stdout' = Append(stdout, "INFO rendering")
              /\ img_a' = IF img_a.h # h_out
                          THEN [w |-> w_out, h |-> h_out] ELSE img_a
              /\ UNCHANGED status
         ELSE /\ Exit(2, "ERROR open writer")
              /\ UNCHANGED <<writer, img_a>>
    /\ frame_idx' = 0
    /\ UNCHANGED <<img_b, fps, seconds, w_out, h_out, new_w_b, w_43,
                   total_frames, releases, t, rect_w, x0, x1, y0, y1,
                   wA, wB, frame, calls, write_failed>>

(* line 111: for frame_idx in range(total_frames) *)
LoopHead ==
    /\ pc = "loop"
    /\ UNCHANGED amOthers
    /\ pc' = IF frame_idx < total_frames THEN "geom" ELSE "release"
    /\ UNCHANGED <<img_a, img_b, fps, seconds, w_out, h_out, new_w_b, w_43,
                   total_frames, writer, releases, frame_idx, t, rect_w,
                   x0, x1, y0, y1, wA, wB, frame, calls, write_failed,
                   status, stdout>>

(* lines 112-134: t, rect_w and the clamped rectangle *)
Geometry ==
    /\ pc = "geom"
    /\ UNCHANGED amOthers
    /\ LET tt == TimeOf(frame_idx, total_frames)
       IN  /\ t' = tt
           /\ \E rw \in RectWidth(tt, w_out, w_43) :
                /\ rect_w' = rw
                /\ x0' = RectX0(w_out, rw)
                /\ x1' = RectX1(w_out, rw)
           /\ y0' = 0
           /\ y1' = h_out
    /\ pc' = "compose"
    /\ UNCHANGED <<img_a, img_b, fps, seconds, w_out, h_out, new_w_b, w_43,
                   total_frames, writer, releases, frame_idx, wA, wB, frame,
                   calls, write_failed, status, stdout>>

(* lines 137-154: black frame, blended content into the slice, border.     *)
(* cv2.resize raises for an empty size; numpy raises when the block does   *)
(* not have the shape of the slice.                                        *)
Compose ==
    /\ pc = "compose"
    /\ UNCHANGED amOthers
    /\ IF rect_w >= 1 /\ h_out >= 1 /\ x1 - x0 = rect_w /\ y1 - y0 = h_out
       THEN /\ wA' = WeightA(t)
            /\ wB' = WeightB(t)
            /\ frame' = [w |-> w_out, h |-> h_out, idx |-> frame_idx,
                         ops |-> ComposeOps(w_out, h_out, x0, y0, x1, y1)]
            /\ pc' = "write"
            /\ UNCHANGED <<status, stdout>>
       ELSE /\ Uncaught
            /\ UNCHANGED <<wA, wB, frame>>
    /\ UNCHANGED <<img_a, img_b, fps, seconds, w_out, h_out, new_w_b, w_43,
                   total_frames, writer, releases, frame_idx, t, rect_w,
                   x0, x1, y0, y1, calls, write_failed>>

(* lines 137-154: np.zeros or a cv2 call fails (MemoryError, cv2.error);   *)
(* the exception leaves main() past writer.release().                      *)
ComposeRaise ==
    /\ pc = "compose"
    /\ UNCHANGED amOthers
    /\ Uncaught
    /\ UNCHANGED <<img_a, img_b, fps, seconds, w_out, h_out, new_w_b, w_43,
                   total_frames, writer, releases, frame_idx, t, rect_w,
                   x0, x1, y0, y1, wA, wB, frame, calls, write_failed>>

(* line 156: writer.write(frame).  The encoder appends the frame or drops  *)
(* it; write() returns nothing and the script goes on either way.          *)
Write ==
    /\ pc = "write"
    /\ UNCHANGED amOthers
    /\ calls' = Append(calls,
                  [idx |-> frame_idx, t |-> t, rect_w |-> rect_w,
                   x0 |-> x0, x1 |-> x1, y0 |-> y0, y1 |-> y1,
                   wA |-> wA, wB |-> wB, frame |-> frame, writer |-> writer])
    /\ \E appended \in BOOLEAN : write_failed' = (write_failed \/ ~appended)
    /\ frame_idx' = frame_idx + 1
    /\ pc' = "loop"
    /\ UNCHANGED <<img_a, img_b, fps, seconds, w_out, h_out, new_w_b, w_43,
                   total_frames, writer, releases, t, rect_w, x0, x1, y0, y1,
                   wA, wB, frame, status, stdout>>

(* line 156: writer.write raises (cv2.error from the backend) *)
WriteRaise ==
    /\ pc = "write"
    /\ UNCHANGED amOthers
    /\ Uncaught
    /\ UNCHANGED <<img_a, img_b, fps, seconds, w_out, h_out, new_w_b, w_43,
                   total_frames, writer, releases, frame_idx, t, rect_w,
                   x0, x1, y0, y1, wA, wB, frame, calls, write_failed>>

(* lines 158-159: writer.release(); print "[OK] Saved video"; return *)
Release ==
    /\ pc = "release"
    /\ UNCHANGED amOthers
    /\ writer' = "released"
    /\ releases' = releases + 1
    /\ stdout' = Append(stdout, "OK saved video")
    /\ status' = 0
    /\ pc' = "done"
    /\ UNCHANGED <<img_a, img_b, fps, seconds, w_out, h_out, new_w_b, w_43,
                   total_frames, frame_idx, t, rect_w, x0, x1, y0, y1,
                   wA, wB, frame, calls, write_failed>>

Next ==
    \/ LoadA
    \/ LoadB
    \/ Setup
    \/ OpenWriter
    \/ LoopHead
    \/ Geometry
    \/ Compose
    \/ ComposeRaise
    \/ Write
    \/ WriteRaise
    \/ Release

Spec == Init /\ [][Next]_vars

(* The run of specification section 8: A of 1920x1080, B of 1200x1600,     *)
(* --fps 25 --seconds 1.0.                                                 *)
ExampleInit ==
    /\ Start
    /\ img_a = [w |-> 1920, h |-> 1080]
    /\ img_b = [w |-> 1200, h |-> 1600]
    /\ fps = 25
    /\ seconds = Rat(1, 1)

SpecExample == ExampleInit /\ [][Next]_vars

----------------------------------------------------------------------------
(* The PowerPoint scripts: the three loops that poll CreateVideoStatus     *)
(* (ppt_morph_minimal.create_video_from_presentation,                      *)
(* pptx_morph_to_video.export_video_from_pptx, pptx_pair_morph_to_video    *)
(* .main) and, for the last, the whole try/finally of main().  Every COM   *)
(* call either returns or raises; PowerPoint decides.                      *)

MaxPolls == 3
MaxSlides == 2

(* pptx_pair_morph_to_video.py lines 43-47, PpMediaTaskStatus *)
PP_MEDIA_STATUS_NONE == 0
PP_MEDIA_STATUS_QUEUED == 1
PP_MEDIA_STATUS_INPROGRESS == 2
PP_MEDIA_STATUS_DONE == 3
PP_MEDIA_STATUS_FAILED == 4

(* ppt_morph_minimal.py lines 9-11 *)
PP_MEDIA_TASK_STATUS_NOT_STARTED == 0
PP_MEDIA_TASK_STATUS_IN_PROGRESS == 1
PP_MEDIA_TASK_STATUS_DONE == 3

Terminal == {PP_MEDIA_STATUS_DONE, PP_MEDIA_STATUS_FAILED}
Statuses == PP_MEDIA_STATUS_NONE..PP_MEDIA_STATUS_FAILED

(* the export task: a finished or failed task stays so, a running one may  *)
(* be in any state at the next read                                        *)
StatusAfter(cur) == IF cur \in Terminal THEN {cur} ELSE Statuses

(* the auto_match variables while a PowerPoint script runs *)
AmIdle ==
    /\ img_a = NoImage /\ img_b = NoImage
    /\ fps = 0 /\ seconds = Rat(0, 1)
    /\ w_out = 0 /\ h_out = 0 /\ new_w_b = 0 /\ w_43 = 0 /\ total_frames = 0
    /\ writer = "none" /\ releases = 0
    /\ frame_idx = 0 /\ t = Rat(0, 1)
    /\ rect_w = 0 /\ x0 = 0 /\ x1 = 0 /\ y0 = 0 /\ y1 = 0
    /\ wA = 0 /\ wB = 0
    /\ frame = NoFrame
    /\ calls = <<>>
    /\ write_failed = FALSE

PptInit ==
    /\ AmIdle
    /\ PptIdle
    /\ MpIdle
    /\ status = Running
    /\ stdout = <<>>
    /\ \/ prog = "minimal" /\ pc = "min_create"
       \/ prog = "export" /\ pc = "exp_create"
       \/ prog = "pair" /\ pc = "pair_open_orig"

(* pres.CreateVideoStatus: the value read, or the COM call raises *)
ReadStatus(s) ==
    /\ s \in StatusAfter(cv_status)
    /\ cv_status' = s
    /\ seen' = s
    /\ polls' = polls + 1

(* ---- ppt_morph_minimal.create_video_from_presentation ---- *)

(* lines 118-134: remove an old file, pres.CreateVideo(...) *)
MinCreateVideo ==
    /\ pc = "min_create"
    /\ \E ok \in BOOLEAN :
         IF ok
         THEN /\ pc' = "min_poll"
              /\ cv_status' \in Statuses \ Terminal
              /\ UNCHANGED <<status, stdout>>
         ELSE /\ Uncaught
              /\ UNCHANGED cv_status
    /\ UNCHANGED <<pptOthers, seen, polls, pres, close_attempts, quits,
                   slide_count, pending>>

(* lines 137-147: one pass of "while True": break on DONE, otherwise print *)
(* the status (IN_PROGRESS, NOT_STARTED or any other code) and go on       *)
MinPoll ==
    /\ pc = "min_poll"
    /\ polls < MaxPolls
    /\ \E s \in Statuses :
         /\ ReadStatus(s)
         /\ pc' = IF s = PP_MEDIA_TASK_STATUS_DONE THEN "min_return" ELSE "min_sleep"
         /\ stdout' = Append(stdout,
                CASE s = PP_MEDIA_TASK_STATUS_DONE -> "PPT status DONE"
                  [] s = PP_MEDIA_TASK_STATUS_IN_PROGRESS -> "PPT status in progress"
                  [] s = PP_MEDIA_TASK_STATUS_NOT_STARTED -> "PPT status not started"
                  [] OTHER -> "PPT status code")
    /\ UNCHANGED <<status, pptOthers, pres, close_attempts, quits,
                   slide_count, pending>>

(* line 148: time.sleep(poll_interval) *)
MinSleep ==
    /\ pc = "min_sleep"
    /\ pc' = "min_poll"
    /\ UNCHANGED <<status, stdout, pptOthers, pptVars>>

(* line 150: print "[PPT] Video created at", return *)
MinReturn ==
    /\ pc = "min_return"
    /\ pc' = "done"
    /\ status' = 0
    /\ stdout' = Append(stdout, "PPT video created")
    /\ UNCHANGED <<pptOthers, pptVars>>

(* ---- pptx_morph_to_video.export_video_from_pptx ---- *)

(* lines 153-166: pres.CreateVideo(...) *)
ExpCreateVideo ==
    /\ pc = "exp_create"
    /\ \E ok \in BOOLEAN :
         IF ok
         THEN /\ pc' = "exp_poll"
              /\ cv_status' \in Statuses \ Terminal
              /\ UNCHANGED <<status, stdout>>
         ELSE /\ Uncaught
              /\ UNCHANGED cv_status
    /\ UNCHANGED <<pptOthers, seen, polls, pres, close_attempts, quits,
                   slide_count, pending>>

(* lines 169-176: one pass of "while True": break on Done, raise           *)
(* RuntimeError on Failed, otherwise sleep                                 *)
ExpPoll ==
    /\ pc = "exp_poll"
    /\ polls < MaxPolls
    /\ \E s \in Statuses :
         /\ ReadStatus(s)
         /\ IF s = PP_MEDIA_STATUS_DONE
            THEN /\ pc' = "done"
                 /\ status' = 0
                 /\ stdout' = Append(stdout, "PY export completed")
            ELSE IF s = PP_MEDIA_STATUS_FAILED
            THEN Uncaught
            ELSE /\ pc' = "exp_sleep"
                 /\ UNCHANGED <<status, stdout>>
    /\ UNCHANGED <<pptOthers, pres, close_attempts, quits, slide_count,
                   pending>>

(* line 177: time.sleep(1) *)
ExpSleep ==
    /\ pc = "exp_sleep"
    /\ pc' = "exp_poll"
    /\ UNCHANGED <<status, stdout, pptOthers, pptVars>>

(* ---- pptx_pair_morph_to_video.main, from line 102 ---- *)

(* control leaves the try block: an exception, a sys.exit, or its end *)
Leave(what) ==
    /\ pc' = "pair_finally"
    /\ pending' = what

(* lines 107-108: pres_orig = pp.Presentations.Open(orig) *)
PairOpenOrig ==
    /\ pc = "pair_open_orig"
    /\ \E n \in 0..MaxSlides :
         \/ /\ pres' = [pres EXCEPT !.orig = TRUE]
            /\ slide_count' = [slide_count EXCEPT !.orig = n]
            /\ pc' = "pair_open_resized"
            /\ UNCHANGED pending
         \/ /\ n = 0
            /\ Leave("exc")
            /\ UNCHANGED <<pres, slide_count>>
    /\ UNCHANGED <<status, stdout, pptOthers, cv_status, seen, polls,
                   close_attempts, quits>>

(* lines 110-111: pres_resized = pp.Presentations.Open(resized) *)
PairOpenResized ==
    /\ pc = "pair_open_resized"
    /\ \E n \in 0..MaxSlides :
         \/ /\ pres' = [pres EXCEPT !.resized = TRUE]
            /\ slide_count' = [slide_count EXCEPT !.resized = n]
            /\ pc' = "pair_check"
            /\ UNCHANGED pending
         \/ /\ n = 0
            /\ Leave("exc")
            /\ UNCHANGED <<pres, slide_count>>
    /\ UNCHANGED <<status, stdout, pptOthers, cv_status, seen, polls,
                   close_attempts, quits>>

(* lines 113-118: sys.exit(2) / sys.exit(3) for a deck without slides *)
PairCheckSlides ==
    /\ pc = "pair_check"
    /\ IF slide_count.orig < 1
       THEN /\ Leave("exit2")
            /\ stdout' = Append(stdout, "ERROR original has no slides")
       ELSE IF slide_count.resized < 1
       THEN /\ Leave("exit3")
            /\ stdout' = Append(stdout, "ERROR resized has no slides")
       ELSE /\ pc' = "pair_add"
            /\ UNCHANGED <<pending, stdout>>
    /\ UNCHANGED <<status, pptOthers, cv_status, seen, polls, pres,
                   close_attempts, quits, slide_count>>

(* lines 120-121: pres_out = pp.Presentations.Add() *)
PairAdd ==
    /\ pc = "pair_add"
    /\ \E ok \in BOOLEAN :
         IF ok
         THEN /\ pres' = [pres EXCEPT !.out = TRUE]
              /\ pc' = "pair_paste"
              /\ UNCHANGED pending
         ELSE /\ Leave("exc")
              /\ UNCHANGED pres
    /\ UNCHANGED <<status, stdout, pptOthers, cv_status, seen, polls,
                   close_attempts, quits, slide_count>>

(* lines 123-129: copy slide 1 of each deck, paste at 1 and at 2; the      *)
(* number of slides the pastes leave is PowerPoint's                       *)
PairPaste ==
    /\ pc = "pair_paste"
    /\ \E n \in 0..(MaxSlides + 1) :
         \/ /\ n >= 1
            /\ slide_count' = [slide_count EXCEPT !.out = n]
            /\ pc' = "pair_count"
            /\ UNCHANGED pending
         \/ /\ n = 0
            /\ Leave("exc")
            /\ UNCHANGED slide_count
    /\ UNCHANGED <<status, stdout, pptOthers, cv_status, seen, polls, pres,
                   close_attempts, quits>>

(* lines 131-133: sys.exit(4) unless the new deck has two slides *)
PairCheckCount ==
    /\ pc = "pair_count"
    /\ IF slide_count.out # 2
       THEN /\ Leave("exit4")
            /\ stdout' = Append(stdout, "ERROR expected 2 slides")
       ELSE /\ pc' = "pair_timings"
            /\ UNCHANGED <<pending, stdout>>
    /\ UNCHANGED <<status, pptOthers, cv_status, seen, polls, pres,
                   close_attempts, quits, slide_count>>

(* lines 135-162: timings (may raise), EntryEffect and Duration (a failure *)
(* is caught and printed as a warning), SaveAs (may raise)                 *)
PairTimings ==
    /\ pc = "pair_timings"
    /\ \E ok \in BOOLEAN, warned \in BOOLEAN :
         /\ IF ok
            THEN pc' = "pair_create" /\ UNCHANGED pending
            ELSE Leave("exc")
         /\ stdout' = IF warned THEN Append(stdout, "WARN morph") ELSE stdout
    /\ UNCHANGED <<status, pptOthers, cv_status, seen, polls, pres,
                   close_attempts, quits, slide_count>>

(* lines 164-173: pres_out.CreateVideo(...) *)
PairCreateVideo ==
    /\ pc = "pair_create"
    /\ \E ok \in BOOLEAN :
         IF ok
         THEN /\ pc' = "pair_poll"
              /\ cv_status' \in Statuses \ Terminal
              /\ UNCHANGED pending
         ELSE /\ Leave("exc")
              /\ UNCHANGED cv_status
    /\ UNCHANGED <<status, stdout, pptOthers, seen, polls, pres,
                   close_attempts, quits, slide_count>>

(* lines 184-194: one pass of "while True": break on DONE, sys.exit(5) on  *)
(* FAILED, otherwise sleep                                                 *)
PairPoll ==
    /\ pc = "pair_poll"
    /\ polls < MaxPolls
    /\ \E s \in Statuses :
         /\ ReadStatus(s)
         /\ IF s = PP_MEDIA_STATUS_DONE
            THEN /\ Leave("none")
                 /\ stdout' = stdout \o <<"INFO status", "INFO export completed">>
            ELSE IF s = PP_MEDIA_STATUS_FAILED
            THEN /\ Leave("exit5")
                 /\ stdout' = stdout \o <<"INFO status", "ERROR export failed">>
            ELSE /\ pc' = "pair_sleep"
                 /\ stdout' = Append(stdout, "INFO status")
                 /\ UNCHANGED pending
    /\ UNCHANGED <<status, pptOthers, pres, close_attempts, quits,
                   slide_count>>

(* lines 184-185: reading CreateVideoStatus raises *)
PairPollRaise ==
    /\ pc = "pair_poll"
    /\ Leave("exc")
    /\ UNCHANGED <<status, stdout, pptOthers, cv_status, seen, polls, pres,
                   close_attempts, quits, slide_count>>

(* line 196: time.sleep(1.5) *)
PairSleep ==
    /\ pc = "pair_sleep"
    /\ pc' = "pair_poll"
    /\ UNCHANGED <<status, stdout, pptOthers, pptVars>>

(* no Close() at all *)
CloseAttemptNever(notNone, n) == n

(* lines 200-205: "if p is not None: p.Close()", its exception swallowed *)
CloseAttempt(notNone, n) == IF notNone THEN n + 1 ELSE n

(* lines 198-210: the finally block: Close on pres_out, pres_orig,         *)
(* pres_resized where not None, then pp.Quit(), every exception swallowed  *)
PairFinally ==
    /\ pc = "pair_finally"
    /\ close_attempts' =
         [out |-> CloseAttempt(pres.out, close_attempts.out),
          orig |-> CloseAttempt(pres.orig, close_attempts.orig),
          resized |-> CloseAttempt(pres.resized, close_attempts.resized)]
    /\ quits' = quits + 1
    /\ pc' = "pair_after"
    /\ UNCHANGED <<status, stdout, pptOthers, cv_status, seen, polls, pres,
                   slide_count, pending>>

(* after the finally block: line 212 when the try block ended normally,    *)
(* otherwise the SystemExit or the exception goes on                       *)
PairAfter ==
    /\ pc = "pair_after"
    /\ IF pending = "none"
       THEN /\ pc' = "done"
            /\ status' = 0
            /\ stdout' = Append(stdout, "OK saved video")
       ELSE IF pending = "exc"
       THEN Uncaught
       ELSE /\ pc' = "exit"
            /\ status' = (CASE pending = "exit2" -> 2
                            [] pending = "exit3" -> 3
                            [] pending = "exit4" -> 4
                            [] OTHER -> 5)
            /\ UNCHANGED stdout
    /\ UNCHANGED <<pptOthers, pptVars>>

PptNext ==
    \/ MinCreateVideo
    \/ MinPoll
    \/ MinSleep
    \/ MinReturn
    \/ ExpCreateVideo
    \/ ExpPoll
    \/ ExpSleep
    \/ PairOpenOrig
    \/ PairOpenResized
    \/ PairCheckSlides
    \/ PairAdd
    \/ PairPaste
    \/ PairCheckCount
    \/ PairTimings
    \/ PairCreateVideo
    \/ PairPoll
    \/ PairPollRaise
    \/ PairSleep
    \/ PairFinally
    \/ PairAfter

SpecPpt == PptInit /\ [][PptNext]_vars

----------------------------------------------------------------------------
(* morph_pptx.main: two extracted decks are interleaved into the output    *)
(* deck.  Strings that the code parses or formats are sequences of         *)
(* one-character strings; an Id is pre \o suf.                             *)

MaxDeck == 2

Digits == <<"0", "1", "2", "3", "4", "5", "6", "7", "8", "9">>

IsDigit(c) == \E d \in 1..Len(Digits) : Digits[d] = c

DigitVal(c) == (CHOOSE d \in 1..Len(Digits) : Digits[d] = c) - 1

(* int(x) returns for a non-empty string of digits, raises ValueError for  *)
(* the other strings of the model                                          *)
CanInt(x) == Len(x) > 0 /\ \A i \in 1..Len(x) : IsDigit(x[i])

RECURSIVE IntOf(_)
IntOf(x) ==
    IF Len(x) = 0 THEN 0
    ELSE IntOf(SubSeq(x, 1, Len(x) - 1)) * Len(Digits) + DigitVal(x[Len(x)])

(* str(n), n >= 0 *)
RECURSIVE Str(_)
Str(n) ==
    IF n < Len(Digits) THEN <<Digits[n + 1]>>
    ELSE Str(n \div Len(Digits)) \o <<Digits[(n % Len(Digits)) + 1]>>

SetMax(S) == CHOOSE m \in S : \A x \in S : x <= m

(* the highest id again, not the one after it *)
NextIdNoIncrement(existing_ids) ==
    IF existing_ids = {} THEN <<"1">>
    ELSE Str(SetMax({IntOf(x) : x \in existing_ids}))

(* lines 54-58; NextIdRaises: int(x) raises ValueError for some x *)
NextIdRaises(existing_ids) == \E x \in existing_ids : ~CanInt(x)

NextId(existing_ids) ==
    IF existing_ids = {} THEN <<"1">>
    ELSE Str(SetMax({IntOf(x) : x \in existing_ids}) + 1)

(* lines 150-162: the highest number among the slide*.xml names whose      *)
(* middle part int() accepts, 0 if there is none, plus one                 *)
NextSlideNumber(files) ==
    SetMax({0} \cup {IntOf(f.stem) : f \in {g \in files : CanInt(g.stem)}}) + 1

(* lines 61-75: root.find looks at the direct children of p:sld only; the  *)
(* first p:transition found loses its children and gets p:morph, and       *)
(* without one a new p:transition is appended to the root                  *)
AddMorph(content) ==
    IF content.direct = <<>>
    THEN [content EXCEPT !.direct = << <<"morph">> >>]
    ELSE [content EXCEPT !.direct[1] = <<"morph">>]

(* namespace of the Relationship elements of a .rels part: the package     *)
(* namespace (what the OPC standard and PowerPoint write) or the           *)
(* officeDocument namespace, the one NS["r"] names (line 11)               *)
RelNs == {"package", "officeDocument"}

(* lines 51-52, 117-119: findall("r:Relationship", NS) *)
FindRelationships(rels) == SelectSeq(rels, LAMBDA r : r.ns = "officeDocument")

RelId(pre, suf) == [pre |-> pre, suf |-> suf]

RidLayouts == {"dense", "sparse", "padded", "named"}
FileLayouts == {"dense", "sparse"}
Kinds == {"plain", "fade", "wrapped"}

(* the relationships of a deck that are not slides *)
ExtraIds(rl) ==
    CASE rl = "dense" -> <<RelId("rId", <<"1">>)>>
      [] rl = "sparse" -> <<RelId("rId", <<"1">>), RelId("rId", Str(MaxDeck + 5)),
                            RelId("R", <<"9">>)>>
      [] rl = "padded" -> <<RelId("rId", <<"0", "1">>)>>
      [] rl = "named" -> <<RelId("rId", <<"1">>), RelId("rId", <<"x">>)>>

SlideRid(rl, j) ==
    IF rl = "padded" THEN RelId("rId", <<"0">> \o Str(j + 1))
    ELSE RelId("rId", Str(j + 1))

SlideStem(fl, j) == IF fl = "dense" THEN Str(j) ELSE Str(2 * j)

(* a slide file: what it shows (body), its direct-child p:transition       *)
(* elements, each the sequence of its children, and the number of          *)
(* p:transition elements inside mc:AlternateContent                        *)
SlideContent(tag, j, kind) ==
    [body |-> [deck |-> tag, j |-> j],
     direct |-> IF kind = "fade" THEN << <<"fade">> >> ELSE <<>>,
     nested |-> IF kind = "wrapped" THEN 2 ELSE 0]

MakeDeck(tag, ns, n, rl, fl, kind) ==
    [ns |-> ns,
     slds |-> [j \in 1..n |-> [sid |-> 255 + j, rid |-> SlideRid(rl, j)]],
     rels |-> [i \in 1..Len(ExtraIds(rl)) |->
                  [ns |-> ns, Id |-> ExtraIds(rl)[i],
                   Target |-> [dir |-> "slideMasters", stem |-> <<"1">>]]]
              \o [j \in 1..n |->
                  [ns |-> ns, Id |-> SlideRid(rl, j),
                   Target |-> [dir |-> "slides", stem |-> SlideStem(fl, j)]]],
     files |-> {[stem |-> SlideStem(fl, j), content |-> SlideContent(tag, j, kind)]
                   : j \in 1..n}
               \cup (IF fl = "sparse"
                     THEN {[stem |-> <<"x">>, content |-> SlideContent(tag, 0, kind)]}
                     ELSE {})]

OrigDecks ==
    {MakeDeck("orig", ns, n, rl, fl, kind) :
        ns \in RelNs, n \in 0..MaxDeck, rl \in RidLayouts, fl \in FileLayouts,
        kind \in {"plain", "fade"}}

ResDecks ==
    {MakeDeck("res", ns, n, "dense", "dense", kind) :
        ns \in RelNs, n \in 0..MaxDeck, kind \in Kinds}

MpInit ==
    /\ AmIdle
    /\ PptIdle
    /\ prog = "morph"
    /\ pc = "mp_load"
    /\ status = Running
    /\ stdout = <<>>
    /\ orig_deck \in OrigDecks
    /\ res_deck \in ResDecks
    /\ out_slds = <<>> /\ out_rels = <<>> /\ out_files = {}
    /\ new_rel_ids = {}
    /\ pair_count = 0 /\ idx = 0
    /\ copied = <<>>

(* lines 78-137: extract orig into orig and out, resized into resized;     *)
(* read the slide lists and the relationships; existing_ids is what        *)
(* follows "rId" in the Ids found in out's relationships                   *)
MpLoad ==
    /\ pc = "mp_load"
    /\ out_slds' = orig_deck.slds
    /\ out_rels' = orig_deck.rels
    /\ out_files' = orig_deck.files
    /\ new_rel_ids' =
         LET found == FindRelationships(orig_deck.rels)
         IN {found[i].Id.suf : i \in {k \in 1..Len(found) : found[k].Id.pre = "rId"}}
    /\ pc' = "mp_clear"
    /\ UNCHANGED <<status, stdout, prog, amVars, pptVars, orig_deck, res_deck,
                   pair_count, idx, copied>>

(* lines 139-147: every entry of out's slide list removed; pair_count *)
MpClear ==
    /\ pc = "mp_clear"
    /\ out_slds' = <<>>
    /\ pair_count' = Min(Len(orig_deck.slds), Len(res_deck.slds))
    /\ idx' = 0
    /\ pc' = "mp_add_orig"
    /\ UNCHANGED <<status, stdout, prog, amVars, pptVars, orig_deck, res_deck,
                   out_rels, out_files, new_rel_ids, copied>>

(* lines 164-205, add_slide_from(deck, relmap(deck), slide j, is_morph):   *)
(* KeyError at line 167 when the r:id is not in the rel map; otherwise the *)
(* slide file is copied under the next slide number and given the morph    *)
(* transition if asked; then the new Id (ValueError from next_id leaves    *)
(* the copied file behind), the Relationship element, the p:sldId copy.    *)
(* The rels part exists in every deck, so out_rels_root is never None.     *)
AddSlideFrom(deck, j, is_morph_target, next) ==
    LET rId_src == deck.slds[j].rid
        found == FindRelationships(deck.rels)
        hits == {i \in 1..Len(found) : found[i].Id = rId_src}
    IN  IF hits = {}
        THEN /\ Uncaught
             /\ UNCHANGED <<out_slds, out_rels, out_files, new_rel_ids, copied>>
        ELSE
          LET src_target == found[SetMax(hits)].Target
              src == CHOOSE f \in deck.files : f.stem = src_target.stem
              new_num == NextSlideNumber(out_files)
              new_stem == Str(new_num)
              content == IF is_morph_target THEN AddMorph(src.content)
                         ELSE src.content
              new_id_numeric == NextId(new_rel_ids)
              new_rId == RelId("rId", new_id_numeric)
          IN  /\ out_files' = {f \in out_files : f.stem # new_stem}
                                \cup {[stem |-> new_stem, content |-> content]}
              /\ copied' = Append(copied, new_stem)
              /\ IF NextIdRaises(new_rel_ids)
                 THEN /\ Uncaught
                      /\ UNCHANGED <<out_slds, out_rels, new_rel_ids>>
                 ELSE /\ new_rel_ids' = new_rel_ids \cup {new_id_numeric}
                      /\ out_rels' = Append(out_rels,
                            [ns |-> "officeDocument", Id |-> new_rId,
                             Target |-> [dir |-> "slides", stem |-> new_stem]])
                      /\ out_slds' = Append(out_slds,
                            [sid |-> deck.slds[j].sid, rid |-> new_rId])
                      /\ pc' = next
                      /\ UNCHANGED <<status, stdout>>

(* lines 207-211: the original slide of pair idx *)
MpAddOrig ==
    /\ pc = "mp_add_orig"
    /\ idx < pair_count
    /\ AddSlideFrom(orig_deck, idx + 1, FALSE, "mp_add_res")
    /\ UNCHANGED <<prog, amVars, pptVars, orig_deck, res_deck, pair_count, idx>>

(* line 212: the resized slide of pair idx, the morph target *)
MpAddRes ==
    /\ pc = "mp_add_res"
    /\ AddSlideFrom(res_deck, idx + 1, TRUE, "mp_add_orig")
    /\ idx' = IF pc' = "raised" THEN idx ELSE idx + 1
    /\ UNCHANGED <<prog, amVars, pptVars, orig_deck, res_deck, pair_count>>

(* lines 214-219: presentation.xml and the rels part written, the folder   *)
(* zipped, "Morph deck created at" printed                                 *)
MpFinish ==
    /\ pc = "mp_add_orig"
    /\ idx = pair_count
    /\ pc' = "done"
    /\ status' = 0
    /\ stdout' = Append(stdout, "Morph deck created")
    /\ UNCHANGED <<prog, amVars, pptVars, mpVars>>

MpNext ==
    \/ MpLoad
    \/ MpClear
    \/ MpAddOrig
    \/ MpAddRes
    \/ MpFinish

SpecMorph == MpInit /\ [][MpNext]_vars

----------------------------------------------------------------------------
(* Properties *)

Ended == pc \in {"done", "exit", "raised"}
Opened == writer # "none"
PastSetup == {"open", "loop", "geom", "compose", "write", "release", "done"}
InFrame == pc \in {"compose", "write"}
NCalls == Len(calls)

(* C1: once the VideoWriter has been opened it is released exactly once on *)
(* every exit path of the run: no run ends with an opened writer that was  *)
(* never released, and none releases it twice.                             *)
C1_ReleasedOnceOnEveryExit ==
    /\ releases <= 1
    /\ (Ended /\ Opened) => releases = 1

(* C2: in a run where the writer opens and that reaches the release, write *)
(* was called exactly N times; at every moment the calls so far are frames *)
(* 0, 1, 2, ... in order, none skipped or repeated; frame i was computed   *)
(* from t_i = i/(N-1), so t_0 = 0 and t_(N-1) = 1; the frame handed over   *)
(* was composed for that index from that index's geometry; every write     *)
(* happens while the writer is open, before the release.                   *)
C2_WritesInOrder ==
    /\ NCalls <= total_frames
    /\ writer = "released" => NCalls = total_frames
    /\ pc = "write" => (frame.idx = frame_idx /\ frame_idx = NCalls)
    /\ \A k \in 1..NCalls :
         LET c == calls[k]
         IN  /\ c.idx = k - 1
             /\ c.t.num = k - 1
             /\ c.t.den = total_frames - 1
             /\ (k = 1 => c.t.num = 0)
             /\ (k = total_frames => c.t.num = c.t.den)
             /\ c.frame.idx = c.idx
             /\ c.frame.ops[Len(c.frame.ops)].x0 = c.x0
             /\ c.frame.ops[Len(c.frame.ops)].x1 = c.x1
             /\ c.x1 - c.x0 = c.rect_w
             /\ c.writer = "open"

C2_Witness == pc = "done" /\ NCalls = total_frames /\ total_frames >= 3

(* C3: for every frame, canvas_width >= rect_w >= min(canvas_width,        *)
(* target_width), and rect_w never grows from one frame to the next when   *)
(* target_width < canvas_width.                                            *)
C3_RectWidthBounds ==
    /\ InFrame => (w_out >= rect_w /\ rect_w >= (IF w_out <= w_43 THEN w_out ELSE w_43))
    /\ \A k \in 1..NCalls :
         /\ w_out >= calls[k].rect_w
         /\ calls[k].rect_w >= (IF w_out <= w_43 THEN w_out ELSE w_43)
    /\ w_43 < w_out =>
         /\ \A k \in 1..(NCalls - 1) : calls[k + 1].rect_w <= calls[k].rect_w
         /\ (InFrame /\ NCalls >= 1) => rect_w <= calls[NCalls].rect_w

C3_Witness ==
    /\ NCalls >= 3
    /\ w_43 < w_out
    /\ calls[3].rect_w < calls[2].rect_w
    /\ calls[2].rect_w < calls[1].rect_w

(* C4: the first frame written has rect_w = canvas_width and the last      *)
(* frame written (i = N-1) has rect_w = target_width.                      *)
C4_EndpointsExact ==
    \A k \in 1..NCalls :
        /\ calls[k].idx = 0 => calls[k].rect_w = w_out
        /\ calls[k].idx = total_frames - 1 => calls[k].rect_w = w_43

C4_Witness ==
    /\ pc = "done"
    /\ w_43 < w_out
    /\ calls[1].rect_w = w_out
    /\ calls[NCalls].rect_w = w_43

(* C5: N = max(2, round(fps * seconds)): N is at least 2, N is 2 when the  *)
(* product is at most 2.5, otherwise N is within 1/2 of the product;       *)
(* fps=30, seconds=2.0 gives 60 and fps=1, seconds=0.1 gives 2.            *)
C5_FrameCount ==
    pc \in PastSetup =>
        LET p == fps * seconds.num
            q == seconds.den
            d == total_frames * q - p
        IN  /\ total_frames >= 2
            /\ total_frames = 2 => 2 * (p - 2 * q) <= q
            /\ total_frames > 2 => (2 * d <= q /\ 2 * (-d) <= q)
            /\ (fps = 30 /\ seconds.num = 2 * seconds.den) => total_frames = 60
            /\ (fps = 1 /\ 10 * seconds.num = seconds.den) => total_frames = 2

C5_Witness ==
    /\ pc = "done"
    /\ fps = 30 /\ seconds.num = 2 * seconds.den
    /\ total_frames = 60 /\ NCalls = 60

(* C6: for every image A with positive width and height, target_width is   *)
(* min(round(canvas_height * 4/3), canvas_width), 0 < target_width <=      *)
(* canvas_width, and no step of the run changes it once it is computed.    *)
C6_TargetWidth ==
    /\ [](pc \in PastSetup =>
            /\ img_a.w >= 1 /\ img_a.h >= 1
            /\ w_out = img_a.w /\ h_out = img_a.h
            /\ 0 < w_43 /\ w_43 <= w_out
            /\ \E r \in 0..(2 * h_out + 1) :
                 /\ 2 * (3 * r - 4 * h_out) <= 3
                 /\ 2 * (4 * h_out - 3 * r) <= 3
                 /\ w_43 = (IF r <= w_out THEN r ELSE w_out))
    /\ [][(pc \in PastSetup) => (w_43' = w_43)]_vars

C6_Witness == pc = "done" /\ w_43 < w_out /\ 3 * w_43 # 4 * h_out

(* C7: in every frame y0 = 0, y1 = canvas_height, 0 <= x0 <= x1 <=         *)
(* canvas_width, and the left bar x0 and the right bar canvas_width - x1   *)
(* differ by at most one pixel.                                            *)
C7_RectangleCentred ==
    /\ InFrame =>
         /\ y0 = 0 /\ y1 = h_out
         /\ 0 <= x0 /\ x0 <= x1 /\ x1 <= w_out
         /\ x0 - (w_out - x1) <= 1
         /\ (w_out - x1) - x0 <= 1
    /\ \A k \in 1..NCalls :
         LET c == calls[k]
         IN  /\ c.y0 = 0 /\ c.y1 = h_out
             /\ 0 <= c.x0 /\ c.x0 <= c.x1 /\ c.x1 <= w_out
             /\ c.x0 - (w_out - c.x1) <= 1
             /\ (w_out - c.x1) - c.x0 <= 1

C7_Witness ==
    /\ pc = "write"
    /\ x0 >= 1
    /\ (w_out - x1) # x0

Cols == 0..(frame.w - 1)
Rows == 0..(frame.h - 1)
LastFrameHandedOver == pc = "write" /\ frame_idx = total_frames - 1
InsideCols(x) == x0 <= x /\ x < x1

(* C8 as stated: in the last frame (t = 1) every pixel outside the column  *)
(* range [x0, x1) is pure black after all drawing steps, border included,  *)
(* and the blend weight of A is zero.                                      *)
C8_OutsideBlack_Original ==
    LastFrameHandedOver =>
        /\ wA = 0
        /\ \A x \in Cols, y \in Rows :
             ~InsideCols(x) => PixelAt(frame, x, y) = "black"

(* C8 as amended: in the last frame the blend weight of A is zero and      *)
(* every pixel outside the column range [x0, x1) is pure black, except the *)
(* pixels of the border stroke, which spills over the columns x0-1, x1 and *)
(* x1+1: those columns are white wherever they lie on the canvas, and      *)
(* every pixel left of x0-1 or right of x1+1 is pure black.                *)
C8_OutsideBlackButStroke ==
    LastFrameHandedOver =>
        /\ wA = 0
        /\ wB = t.den
        /\ \A x \in Cols, y \in Rows :
             ~InsideCols(x) =>
                 PixelAt(frame, x, y) =
                     (IF x \in {x0 - 1, x1, x1 + 1} THEN "white" ELSE "black")

C8_Witness ==
    /\ LastFrameHandedOver
    /\ x0 >= 2 /\ x1 + 2 < frame.w
    /\ PixelAt(frame, 0, 0) = "black"
    /\ PixelAt(frame, x1, 0) = "white"
    /\ PixelAt(frame, x1 + 2, frame.h - 1) = "black"

(* C9: in the first frame (t = 0) the rectangle covers the whole canvas    *)
(* (x0 = 0, x1 = canvas_width, no black pixel), the weight of B is zero    *)
(* and the weight of A is one; in every frame the two weights are 1-t and  *)
(* t, t = i/(N-1), and sum to one.                                         *)
C9_FirstFrameAndWeights ==
    pc = "write" =>
        /\ t.den = total_frames - 1 /\ t.den > 0 /\ t.num = frame_idx
        /\ wB = t.num
        /\ wA = t.den - t.num
        /\ wA + wB = t.den
        /\ frame_idx = 0 =>
             /\ x0 = 0 /\ x1 = w_out
             /\ wB = 0 /\ wA = t.den
             /\ \A x \in Cols, y \in Rows : PixelAt(frame, x, y) # "black"

C9_Witness ==
    /\ pc = "write" /\ frame_idx = 0
    /\ w_43 < w_out /\ w_out >= 4 /\ h_out >= 4
    /\ wA = t.den /\ wB = 0
    /\ PixelAt(frame, 2, 2) = "inside"

InRect(x, y) == x0 <= x /\ x < x1 /\ y0 <= y /\ y < y1

(* C10 as stated: in every frame written all pixels of the 2-pixel-wide    *)
(* ring on the boundary of the rectangle [x0, x1) x [y0, y1) (left, right, *)
(* top and bottom edges) are pure white in the frame handed to the writer. *)
C10_Ring2White_Original ==
    pc = "write" =>
        \A x \in Cols, y \in Rows :
            (InRect(x, y) /\ (x < x0 + 2 \/ x >= x1 - 2 \/ y < y0 + 2 \/ y >= y1 - 2))
                => PixelAt(frame, x, y) = "white"

(* C10 as amended: in every frame written, for every t, the boundary       *)
(* pixels of the rectangle [x0, x1) x [y0, y1) (its columns x0 and x1-1,   *)
(* its rows y0 and y1-1) are pure white in the frame handed to the writer, *)
(* the border being drawn after the blended content; the ring is 2 pixels  *)
(* wide on the left and top edges (columns x0, x0+1, rows y0, y0+1) and 1  *)
(* pixel wide on the right and bottom edges, where the rest of the stroke  *)
(* falls outside the rectangle: every other pixel of the rectangle shows   *)
(* the blended content.                                                    *)
C10_BoundaryWhite ==
    pc = "write" =>
        /\ frame.ops[Len(frame.ops)].color = "white"
        /\ \A x \in Cols, y \in Rows :
             InRect(x, y) =>
                 PixelAt(frame, x, y) =
                     (IF x \in {x0, x0 + 1, x1 - 1} \/ y \in {y0, y0 + 1, y1 - 1}
                      THEN "white" ELSE "inside")

C10_Witness ==
    /\ pc = "write"
    /\ rect_w >= 5 /\ h_out >= 4
    /\ PixelAt(frame, x0, 2) = "white"
    /\ PixelAt(frame, x1 - 1, 2) = "white"
    /\ PixelAt(frame, x1 - 2, 2) = "inside"
    /\ PixelAt(frame, x0 + 2, h_out - 2) = "inside"

LastMessage == IF stdout = <<>> THEN "" ELSE stdout[Len(stdout)]

(* C11: a run exits with a non-zero status and a diagnostic message when   *)
(* either image fails to decode or the writer fails to open; it exits with *)
(* status zero, after the confirmation message, only when writer.write was *)
(* called for all N frames and the writer was released; on a decode        *)
(* failure no writer is opened and no frame is written.                    *)
C11_ExitBehaviour ==
    /\ (img_a = NoImage /\ pc # "start") =>
          /\ pc = "exit" /\ status = 1 /\ stdout = <<"ERROR read A">>
          /\ writer = "none" /\ calls = <<>>
    /\ (img_a # NoImage /\ img_b = NoImage /\ pc \notin {"start", "loadB"}) =>
          /\ pc = "exit" /\ status = 1 /\ stdout = <<"ERROR read B">>
          /\ writer = "none" /\ calls = <<>>
    /\ pc = "exit" =>
          /\ status \in {1, 2}
          /\ LastMessage \in {"ERROR read A", "ERROR read B", "ERROR open writer"}
          /\ writer = "none" /\ calls = <<>>
          /\ (status = 2) = (LastMessage = "ERROR open writer")
    /\ Ended => status # Running
    /\ (status = 0 \/ LastMessage = "OK saved video") =>
          /\ pc = "done" /\ status = 0 /\ LastMessage = "OK saved video"
          /\ NCalls = total_frames
          /\ \A k \in 1..NCalls : calls[k].idx = k - 1
          /\ writer = "released" /\ releases = 1

C11_Witness ==
    /\ pc = "exit" /\ status = 2 /\ LastMessage = "ERROR open writer"
    /\ img_a # NoImage /\ img_b # NoImage

(* C12: if a frame write fails after the writer was opened, the run writes *)
(* no further frame, closes the writer and aborts with a non-zero status   *)
(* without reporting success.                                              *)
C12_WriteFailureAborts ==
    write_failed =>
        /\ pc \notin {"geom", "compose", "write"}
        /\ Ended => (status # 0 /\ writer = "released" /\ LastMessage # "OK saved video")

(* C16: in every frame the clamps of x0 and x1 change nothing: x0 =        *)
(* floor(canvas_width/2) - floor(rect_w/2) is >= 0 and x1 = x0 + rect_w is *)
(* <= canvas_width, so x1 - x0 = rect_w >= 1 and the blended block of size *)
(* rect_w x canvas_height has the shape of the slice it is assigned to.    *)
C16_ClampsAreNoOps ==
    /\ InFrame =>
          /\ x0 = (w_out \div 2) - (rect_w \div 2)
          /\ x1 = x0 + rect_w
          /\ x0 >= 0 /\ x1 <= w_out
          /\ x1 - x0 = rect_w /\ rect_w >= 1
          /\ y1 - y0 = h_out /\ h_out >= 1
    /\ pc = "write" =>
          /\ frame.ops[2].color = "inside"
          /\ frame.ops[2].x1 - frame.ops[2].x0 = rect_w
          /\ frame.ops[2].y1 - frame.ops[2].y0 = h_out
    /\ (pc = "raised" /\ Opened) => (rect_w >= 1 /\ x1 - x0 = rect_w)

C16_Witness ==
    /\ pc = "write"
    /\ w_out % 2 = 1 /\ rect_w % 2 = 0 /\ rect_w < w_out
    /\ x0 >= 1

(* C14: with A of 1920x1080, B of 1200x1600, fps = 25 and seconds = 1.0    *)
(* the canvas is 1920x1080, target_width is 1440, N is 25, frame 0 has     *)
(* rectangle width 1920, and frame 24 has rectangle width 1440 and x0 =    *)
(* 240 (hence x1 = 1680).                                                  *)
C14_Example ==
    (/\ img_a = [w |-> 1920, h |-> 1080] /\ img_b = [w |-> 1200, h |-> 1600]
     /\ fps = 25 /\ seconds.num = seconds.den) =>
        /\ pc \in PastSetup =>
              /\ w_out = 1920 /\ h_out = 1080
              /\ w_43 = 1440
              /\ total_frames = 25
        /\ NCalls <= 25
        /\ NCalls >= 1 => (calls[1].idx = 0 /\ calls[1].rect_w = 1920)
        /\ NCalls >= 25 =>
              /\ calls[25].idx = 24
              /\ calls[25].rect_w = 1440
              /\ calls[25].x0 = 240
              /\ calls[25].x1 = 1680

C14_Witness ==
    /\ pc = "done" /\ NCalls = 25
    /\ w_out = 1920 /\ calls[25].x0 = 240

PollingPcs == {"min_poll", "min_sleep", "exp_poll", "exp_sleep", "pair_poll", "pair_sleep"}

(* C13: every polling loop stops polling once the export status it read is *)
(* terminal: it returns on done, ends with an error on failed, and never   *)
(* keeps polling after a terminal status was observed.                     *)
C13_PollingStopsAtTerminal ==
    /\ seen = PP_MEDIA_STATUS_DONE =>
          /\ pc \notin PollingPcs
          /\ Ended => (pc = "done" /\ status = 0)
    /\ seen = PP_MEDIA_STATUS_FAILED =>
          /\ pc \notin PollingPcs
          /\ Ended => (pc \in {"exit", "raised"} /\ status \notin {0, Running})

(* C17: in pptx_pair_morph_to_video.main, on every exit path from line 102 *)
(* on, Close was attempted once on every presentation that was opened or   *)
(* created (and on no other) and Quit was attempted exactly once; the      *)
(* "[OK] Saved video" message is printed only when the polled status       *)
(* reached Done.                                                           *)
C17_PairCleanup ==
    prog = "pair" =>
        /\ quits <= 1
        /\ Ended =>
              /\ quits = 1
              /\ close_attempts.orig = (IF pres.orig THEN 1 ELSE 0)
              /\ close_attempts.resized = (IF pres.resized THEN 1 ELSE 0)
              /\ close_attempts.out = (IF pres.out THEN 1 ELSE 0)
        /\ (status = 0 \/ LastMessage = "OK saved video") =>
              /\ seen = PP_MEDIA_STATUS_DONE
              /\ pc = "done" /\ pending = "none"
        /\ (pc = "exit" /\ status = 2) => (pres.orig /\ pres.resized /\ ~pres.out)
        /\ (pc = "exit" /\ status = 4) => (pres.orig /\ pres.resized /\ pres.out)
        /\ (pc = "exit" /\ status = 5) => seen = PP_MEDIA_STATUS_FAILED

C17_Witness ==
    /\ prog = "pair" /\ pc = "raised"
    /\ pres.orig /\ ~pres.resized /\ ~pres.out
    /\ close_attempts = [orig |-> 1, resized |-> 0, out |-> 0]
    /\ quits = 1

(* the slide file the relationship with this Id points to, among files *)
FileOf(rels, files, rid) ==
    LET i == CHOOSE k \in 1..Len(rels) : rels[k].Id = rid
    IN (CHOOSE f \in files : f.stem = rels[i].Target.stem).content

(* the content of slide j of a deck *)
SlideOf(deck, j) == FileOf(deck.rels, deck.files, deck.slds[j].rid)

(* all p:transition elements of a slide, direct children and nested ones *)
TransitionCount(content) == Len(content.direct) + content.nested

(* C18: morph_pptx.main ends with the output slide list rebuilt as         *)
(* [orig1, res1, orig2, res2, ...]: 2k entries for k = min of the two      *)
(* slide counts, entry 2j-1 a copy of original slide j, entry 2j a copy of *)
(* resized slide j, none of the previous entries left, and the morph       *)
(* transition on exactly the resized copies: each has one transition       *)
(* element, whose only child is morph; the original copies are unchanged.  *)
C18_Interleaved ==
    (prog = "morph" /\ Ended) =>
        LET k == Min(Len(orig_deck.slds), Len(res_deck.slds))
        IN  /\ pc = "done"
            /\ Len(out_slds) = 2 * k
            /\ \A i \in 1..Len(out_slds) :
                  \A j \in 1..Len(orig_deck.slds) :
                      out_slds[i].rid # orig_deck.slds[j].rid
            /\ \A j \in 1..k :
                  /\ FileOf(out_rels, out_files, out_slds[2 * j - 1].rid)
                        = SlideOf(orig_deck, j)
                  /\ LET c == FileOf(out_rels, out_files, out_slds[2 * j].rid)
                     IN  /\ c.body = SlideOf(res_deck, j).body
                         /\ TransitionCount(c) = 1
                         /\ c.direct = << <<"morph">> >>

(* C19: in morph_pptx.main every copied slide file has a name no file of   *)
(* the output folder had before and no other copy has, so the folder grows *)
(* by one file per copy; all relationship Ids of the output deck differ    *)
(* pairwise, so every added Id is new; and the rebuilt slide list refers   *)
(* to the added relationships, one per entry, each a different Id and none *)
(* an Id of the original deck.                                             *)
C19_FreshIdsAndNames ==
    (prog = "morph" /\ pc # "mp_load") =>
        /\ \A i \in 1..Len(copied) :
              /\ \A f \in orig_deck.files : f.stem # copied[i]
              /\ \A j \in 1..Len(copied) : i # j => copied[i] # copied[j]
        /\ Cardinality(out_files) = Cardinality(orig_deck.files) + Len(copied)
        /\ \A i, j \in 1..Len(out_rels) :
              i # j => out_rels[i].Id # out_rels[j].Id
        /\ pc # "mp_clear" =>
              /\ Len(out_rels) = Len(orig_deck.rels) + Len(out_slds)
              /\ \A i \in 1..Len(out_slds) :
                    /\ out_slds[i].rid = out_rels[Len(orig_deck.rels) + i].Id
                    /\ \A j \in 1..Len(orig_deck.rels) :
                          out_slds[i].rid # orig_deck.rels[j].Id
                    /\ \A j \in 1..Len(out_slds) :
                          i # j => out_slds[i].rid # out_slds[j].rid

C19_Witness ==
    /\ prog = "morph" /\ pc = "done"
    /\ Len(out_slds) = 4 /\ Len(copied) = 4
    /\ \E f \in orig_deck.files : ~CanInt(f.stem)
    /\ \E i \in 1..Len(orig_deck.rels) : orig_deck.rels[i].Id = RelId("rId", Str(MaxDeck + 5))

====
